---- MODULE Spec2Model ----
(***************************************************************************)
(* ark-os-noa: the Job container (job.py), the stage processors of the     *)
(* service modules (services/*/main.py), the sequential pipeline runner    *)
(* (pipeline.py, imported by tests/test_pipeline.py) and the agent         *)
(* registry (coding_agents/base_agent.py).                                 *)
(***************************************************************************)
EXTENDS Integers, Sequences, FiniteSets, TLC

\* ------------------------------------------------------------------ bounds
NumThreads == 2      \* concurrent callers; uuid4() draws from as many values
MaxSteps == 3        \* record_step calls a direct caller makes on its job
MaxTrace == 2        \* length up to which a dict-shaped job's lists are grown
MaxAgents == 3       \* agent objects constructed

Threads == 1..NumThreads
UUIDs == 1..NumThreads
Payloads == {"data", "other"}
RecordNames == {"intake", "classifier"}

\* --------------------------------------------------------- stage processors
\* What `<module>.process` is bound to once the service module is loaded:
\*   "absent"    the module defines no process
\*   "job"       def process(job: Job): job.record_step(NAME)        (no return)
\*   "dict"      def process(job: dict): job.setdefault("steps", []).append(NAME); return job
\*   "generated" the generated body: steps and processed_by, return job
\* A later def of the same name rebinds it, so graph_extract and
\* env_synthesis end bound to their second, dict-shaped definition.
intake_process == "absent"
classifier_process == "absent"
graph_extract_process == "dict"
embeddings_process == "absent"
env_synthesis_process == "dict"
safety_process == "absent"
runner_process == "absent"
integrator_process == "absent"
registrar_process == "absent"
test_service_process == "generated"
model_selector_process == "generated"

\* The first, Job-shaped definition of graph_extract / env_synthesis
\* (shadowed by the rebinding above): it calls record_step and returns None.
job_shaped_process == "job"

EXPECTED_STEPS ==
  << "intake", "classifier", "graph_extract", "embeddings", "env_synthesis",
     "safety", "runner", "integrator", "registrar" >>

ProcessOf(name) ==
  CASE name = "intake" -> intake_process
    [] name = "classifier" -> classifier_process
    [] name = "graph_extract" -> graph_extract_process
    [] name = "embeddings" -> embeddings_process
    [] name = "env_synthesis" -> env_synthesis_process
    [] name = "safety" -> safety_process
    [] name = "runner" -> runner_process
    [] name = "integrator" -> integrator_process
    [] name = "registrar" -> registrar_process
    [] name = "test-service" -> test_service_process
    [] name = "model_selector" -> model_selector_process

\* SERVICE_SEQUENCE of pipeline.py: the canonical nine stages, each bound to
\* its module's process.
SERVICE_SEQUENCE ==
  [i \in 1..Len(EXPECTED_STEPS) |->
     [name |-> EXPECTED_STEPS[i], proc |-> ProcessOf(EXPECTED_STEPS[i])]]

\* A configuration of the two Job-shaped processors the source holds.
RecordingSequence ==
  << [name |-> "graph_extract", proc |-> job_shaped_process],
     [name |-> "env_synthesis", proc |-> job_shaped_process] >>

\* The configurations run_pipeline is run under: the canonical one, and the
\* one- and two-stage configurations of Job-shaped processors.
Configs ==
  {SERVICE_SEQUENCE}
    \cup {SubSeq(RecordingSequence, 1, n) : n \in 1..Len(RecordingSequence)}

ConfigNames(c) == [i \in 1..Len(c) |-> c[i].name]

\* The attribute a processor calls on its argument exists on that kind of value:
\* record_step on a Job, setdefault on a dict, neither on None.
Accepts(proc, kind) ==
  \/ proc = "job" /\ kind = "Job"
  \/ proc \in {"dict", "generated"} /\ kind = "dict"

\* What a processor returns when it does not raise.
Returns(proc) == IF proc = "job" THEN "None" ELSE "same"

\* ------------------------------------------------------------------ job.py
NoJob == [exists |-> FALSE, data |-> "", workspace |-> 0, steps |-> << >>]

\* Mutant of NewJob: the payload is dropped.
NewJobDropsData(data, workspace) ==
  [exists |-> TRUE, data |-> "", workspace |-> workspace, steps |-> << >>]

\* Job(data=data, workspace=workspace): steps from default_factory=list.
NewJob(data, workspace) ==
  [exists |-> TRUE, data |-> data, workspace |-> workspace, steps |-> << >>]

\* Mutant of Mkdir: mkdir(exist_ok=True).
MkdirExistOk(u, existing, envOk) == IF ~envOk THEN "OSError" ELSE "ok"

\* Mutant of Mkdir: the failure is wrapped in another exception type.
MkdirWrapsError(u, existing, envOk) ==
  IF u \in existing \/ ~envOk THEN "WorkspaceCreationError" ELSE "ok"

\* workspace.mkdir(): exclusive, FileExistsError when the path exists; the
\* environment may refuse it (permission denied, disk full).
Mkdir(u, existing, envOk) ==
  IF u \in existing THEN "FileExistsError"
  ELSE IF ~envOk THEN "OSError"
  ELSE "ok"

\* marker = self.workspace / f"{name}.txt"
MarkerFile(name) == name \o ".txt"

IoOutcomes == {"ok", "open_failed", "write_failed"}

\* Mutant of WriteText: nothing is written.
WriteTextSkips(dir, file, content, io) == dir

\* Path.write_text(content) on directory listing `dir` (a set of
\* [file, content]): open for writing truncates or creates the file, then the
\* content is written. open_failed leaves the directory as it was;
\* write_failed leaves the file truncated.
WriteText(dir, file, content, io) ==
  IF io = "open_failed" THEN dir
  ELSE {f \in dir : f.file # file}
         \cup {[file |-> file, content |-> IF io = "ok" THEN content ELSE ""]}

\* Mutant of AppendStep: a name already in the trace is not appended again.
AppendStepDedup(steps, name) ==
  IF \E i \in 1..Len(steps) : steps[i] = name THEN steps ELSE Append(steps, name)

\* self.steps.append(name)
AppendStep(steps, name) == Append(steps, name)

\* ------------------------------------------- dict-shaped jobs (services)
\* A dict-shaped job: whether it has the keys "steps" and "processed_by", the
\* lists they hold, whether the two keys hold one and the same list object,
\* and its other items.
EmptyDict ==
  [has_steps |-> FALSE, steps |-> << >>, has_pb |-> FALSE, pb |-> << >>,
   shared |-> FALSE, extra |-> {}]

TraceNames == {"intake", "test-service"}
InputLists == {<< >>} \cup {<< n >> : n \in TraceNames}
InputExtras == {{}, {<< "data", "test" >>}}

\* The dicts a caller passes: with or without either list, the two lists
\* distinct objects or one shared object, with or without other items.
InputDicts ==
  { [has_steps |-> hs, steps |-> IF hs THEN l1 ELSE << >>,
     has_pb |-> hp, pb |-> IF hp THEN l2 ELSE << >>,
     shared |-> FALSE, extra |-> x] :
      hs \in BOOLEAN, hp \in BOOLEAN, l1 \in InputLists, l2 \in InputLists,
      x \in InputExtras }
  \cup
  { [has_steps |-> TRUE, steps |-> l, has_pb |-> TRUE, pb |-> l,
     shared |-> TRUE, extra |-> x] : l \in InputLists, x \in InputExtras }

\* job.setdefault(key, []).append(name) for key "steps" or "processed_by":
\* the list under key, a new empty list stored under key when it is absent,
\* gets name appended in place; a list shared by both keys grows under both.
SetdefaultAppend(d, key, name) ==
  IF key = "steps"
    THEN LET new == Append(IF d.has_steps THEN d.steps ELSE << >>, name)
         IN [d EXCEPT !.has_steps = TRUE, !.steps = new,
                      !.pb = IF d.shared THEN new ELSE @]
    ELSE LET new == Append(IF d.has_pb THEN d.pb ELSE << >>, name)
         IN [d EXCEPT !.has_pb = TRUE, !.pb = new,
                      !.steps = IF d.shared THEN new ELSE @]

\* graph_extract / env_synthesis, second definition: steps only.
DictProcess(name, d) == SetdefaultAppend(d, "steps", name)

\* Mutant of GeneratedProcess: the processed_by line is missing.
GeneratedProcessStepsOnly(name, d) == SetdefaultAppend(d, "steps", name)

\* The generated process body: steps, then processed_by.
GeneratedProcess(name, d) ==
  SetdefaultAppend(SetdefaultAppend(d, "steps", name), "processed_by", name)

\* The services a caller invokes on a dict-shaped job.
CallNames == {"intake", "graph_extract", "test-service"}

\* --------------------------------------------------- agent registry
NoAgent == 0
AgentNames == {"service-generator", "custom"}
LookupNames == AgentNames \cup {"missing"}

\* Mutant of DictSet: a name that has an agent keeps it (dict.setdefault).
DictSetKeepsFirst(reg, name, a) ==
  IF \E i \in 1..Len(reg) : reg[i].name = name
    THEN reg
    ELSE Append(reg, [name |-> name, agent |-> a])

\* self._agents[name] = agent on an insertion-ordered dict, held as a
\* sequence of [name, agent]: an existing key keeps its place.
DictSet(reg, name, a) ==
  IF \E i \in 1..Len(reg) : reg[i].name = name
    THEN [i \in 1..Len(reg) |->
            IF reg[i].name = name THEN [name |-> name, agent |-> a] ELSE reg[i]]
    ELSE Append(reg, [name |-> name, agent |-> a])

\* Mutant of GetAgent: a missing name is answered with the first agent.
GetAgentDefaulting(reg, name) ==
  IF \E i \in 1..Len(reg) : reg[i].name = name
    THEN reg[CHOOSE i \in 1..Len(reg) : reg[i].name = name].agent
    ELSE IF Len(reg) > 0 THEN reg[1].agent ELSE NoAgent

\* AgentRegistry.get_agent: self._agents.get(name), None for a missing name.
GetAgent(reg, name) ==
  IF \E i \in 1..Len(reg) : reg[i].name = name
    THEN reg[CHOOSE i \in 1..Len(reg) : reg[i].name = name].agent
    ELSE NoAgent

\* AgentRegistry.list_agents: list(self._agents.keys()).
ListAgents(reg) == [i \in 1..Len(reg) |-> reg[i].name]

\* AgentRegistry.execute_agent: the lookup, ValueError when it finds nothing,
\* else the agent's execute.
ExecuteAgent(reg, name) ==
  LET agent == GetAgent(reg, name)
  IN IF agent = NoAgent
       THEN [outcome |-> "ValueError", agent |-> NoAgent]
       ELSE [outcome |-> "executed", agent |-> agent]

NoCall ==
  [op |-> "none", name |-> "", known |-> FALSE, outcome |-> "none",
   agent |-> NoAgent, names |-> << >>]

\* ------------------------------------- service generator (coding_agents)
\* The agent's workspace: which of the required items exist, whether tests/
\* exists, pipeline.py (its 'from services.X import main as X' lines, in
\* order), each service directory with its files, and tests/test_<name>.py.
RequiredItems == {"requirements.txt", "docker-compose.yml", "services"}
ServiceDirs == {"model_selector", "test-service"}
\* service_name "" makes services/<service_name> the services directory itself.
ServiceNameArgs == ServiceDirs \cup {""}
Hyphenated == {"test-service"}

DefaultEndpoints == << "/", "/health", "/process" >>
\* endpoints: None, or a list.
EndpointArgs ==
  { [given |-> FALSE, list |-> << >>],
    [given |-> TRUE, list |-> << "/analyze", "/transform" >>] }

NoDir == [exists |-> FALSE, files |-> {}]
\* A service directory that was not generated (written by hand).
OtherDir ==
  [exists |-> TRUE,
   files |-> {[file |-> "main.py", kind |-> "other", name |-> "", endpoints |-> << >>]}]

\* service_path.mkdir(parents=True) and the four write_text calls of execute.
GeneratedDir(name, endpoints) ==
  [exists |-> TRUE,
   files |->
     { [file |-> "__init__.py", kind |-> "empty", name |-> "", endpoints |-> << >>],
       [file |-> "main.py", kind |-> "main", name |-> name, endpoints |-> endpoints],
       [file |-> "requirements.txt", kind |-> "requirements", name |-> "", endpoints |-> << >>],
       [file |-> "Dockerfile", kind |-> "dockerfile", name |-> "", endpoints |-> << >>] }]

\* Mutant of ValidateWorkspace: only services/ is required.
ValidateWorkspaceServicesOnly(fs) == "services" \in fs.required

\* BaseAgent.validate_workspace: every required item exists.
ValidateWorkspace(fs) == \A item \in RequiredItems : item \in fs.required

\* service_path.exists() for service_path = workspace / "services" / name.
ServicePathExists(fs, name) ==
  IF name = "" THEN "services" \in fs.required ELSE fs.svc[name].exists

\* _update_pipeline: nothing when pipeline.py is missing, the name has a hyphen
\* or its import line is there already; else the import line goes in after the
\* first 'from services.' import line, if there is one. (The SERVICE_SEQUENCE
\* list is never extended: no line of the file equals "SERVICE_SEQUENCE".)
UpdatePipeline(pl, name) ==
  IF ~pl.exists \/ name \in Hyphenated THEN pl
  ELSE IF \E i \in 1..Len(pl.imports) : pl.imports[i] = name THEN pl
  ELSE IF Len(pl.imports) = 0 THEN pl
  ELSE [pl EXCEPT !.imports =
          << pl.imports[1], name >> \o SubSeq(pl.imports, 2, Len(pl.imports))]

\* ServiceGeneratorAgent.execute(service_name, endpoints) on workspace fs:
\* the workspace afterwards and how the call ended.
ExecuteService(fs, name, ep) ==
  LET endpoints == IF ep.given THEN ep.list ELSE DefaultEndpoints
      made == [fs EXCEPT !.required = @ \cup {"services"},
                         !.svc[name] = GeneratedDir(name, endpoints),
                         !.pipeline = UpdatePipeline(@, name)]
  IN IF ~ValidateWorkspace(fs)
       THEN [fs |-> fs, outcome |-> "invalid"]
     ELSE IF ServicePathExists(fs, name)
       THEN [fs |-> fs, outcome |-> "exists"]
     ELSE IF ~fs.tests
       THEN \* test_path.write_text: tests/ is missing, FileNotFoundError
            [fs |-> made, outcome |-> "FileNotFoundError"]
     ELSE [fs |-> [made EXCEPT !.testfiles[name] = "generated"],
           outcome |-> "success"]

\* The workspaces the agent is pointed at.
InputWorkspaces ==
  { [required |-> r, tests |-> t, pipeline |-> pl, svc |-> sv, testfiles |-> tf] :
      r \in SUBSET RequiredItems,
      t \in BOOLEAN,
      pl \in { [exists |-> FALSE, imports |-> << >>],
               [exists |-> TRUE, imports |-> << >>],
               [exists |-> TRUE, imports |-> << "intake" >>] },
      sv \in [ServiceDirs -> {NoDir, OtherDir}],
      tf \in [ServiceDirs -> {"absent", "other"}] }

\* What exists lies in a directory that exists.
WellFormed(fs) ==
  /\ "services" \notin fs.required => \A n \in ServiceDirs : ~fs.svc[n].exists
  /\ ~fs.tests => \A n \in ServiceDirs : fs.testfiles[n] = "absent"

NoExecute == [name |-> "", outcome |-> "none", again |-> FALSE]

VARIABLES
  config,   \* the stage configuration, fixed when the pipeline module is built
  dirs,     \* workspace directories existing under the base directory
  files,    \* files[u]: the listing of workspace u
  pc,       \* each caller's position
  mode,     \* "api": the caller uses Job directly; "pipeline": run_pipeline
  idx,      \* index of the next stage of the caller's pipeline run
  uuid,     \* the uuid4 drawn by the caller's Job.create (a local of create)
  arg,      \* the payload passed to Job.create (a local of create)
  job,      \* the Job object the caller's Job.create returned
  cur,      \* the runner's working job: "job" (the Job object) or "None"
  err,      \* the exception that reached the caller, "none" if none
  calls,    \* the names passed to record_step on the caller's job, in call order
  djob,     \* a dict-shaped job object
  dprev,    \* djob as it was when the last process call on it began
  dlast,    \* the service whose process was last called on djob, "" if none
  dret,     \* what that call returned: "same" (the dict itself) or "raised"
  objects,  \* the agent objects constructed so far: objects[a] is a's name
  registry, \* agent_registry._agents, in insertion order
  last,     \* the last call on the registry and its outcome
  latest,   \* per name, the agent most recently passed to register
  sgen,     \* the agents built by calling ServiceGeneratorAgent(...)
  gfs,      \* the service generator's workspace
  gprev,    \* gfs as it was when the last execute began
  gdone,    \* the service names for which an execute has returned success
  glast     \* the last execute: its service_name, how it ended, and whether
            \* an execute for that name had succeeded before

jobVars == << config, dirs, files, pc, mode, idx, uuid, arg, job, cur, err, calls >>
dictVars == << djob, dprev, dlast, dret >>
regVars == << objects, registry, last, latest, sgen >>
genVars == << gfs, gprev, gdone, glast >>
vars == << jobVars, dictVars, regVars, genVars >>

DictIdle == djob = EmptyDict /\ dprev = EmptyDict /\ dlast = "" /\ dret = "none"

RegIdle ==
  /\ objects = << >> /\ registry = << >> /\ last = NoCall
  /\ latest = [n \in AgentNames |-> NoAgent] /\ sgen = {}

EmptyWorkspace ==
  [required |-> {}, tests |-> FALSE,
   pipeline |-> [exists |-> FALSE, imports |-> << >>],
   svc |-> [n \in ServiceDirs |-> NoDir],
   testfiles |-> [n \in ServiceDirs |-> "absent"]]

GenIdle ==
  gfs = EmptyWorkspace /\ gprev = EmptyWorkspace /\ gdone = {} /\ glast = NoExecute

JobInit ==
  /\ config \in Configs
  /\ dirs = {}
  /\ files = [u \in UUIDs |-> {}]
  /\ pc = [t \in Threads |-> "start"]
  /\ mode = [t \in Threads |-> "api"]
  /\ idx = [t \in Threads |-> 0]
  /\ uuid = [t \in Threads |-> 0]
  /\ arg = [t \in Threads |-> ""]
  /\ job = [t \in Threads |-> NoJob]
  /\ cur = [t \in Threads |-> "None"]
  /\ err = [t \in Threads |-> "none"]
  /\ calls = [t \in Threads |-> << >>]

JobIdle == JobInit /\ config = SERVICE_SEQUENCE

Init == JobInit /\ DictIdle /\ RegIdle /\ GenIdle

\* Job.create, lines 20-22: base.mkdir(parents=True, exist_ok=True) and the
\* draw of the uuid. Called directly (m = "api") or first thing by
\* run_pipeline (m = "pipeline"). An exception unwinds the frame.
CreateBegin(t, data, m, baseOk, u) ==
  /\ pc[t] = "start"
  /\ mode' = [mode EXCEPT ![t] = m]
  /\ IF baseOk
       THEN /\ uuid' = [uuid EXCEPT ![t] = u]
            /\ arg' = [arg EXCEPT ![t] = data]
            /\ pc' = [pc EXCEPT ![t] = "mkdir"]
            /\ err' = err
       ELSE /\ pc' = [pc EXCEPT ![t] = "raised"]
            /\ err' = [err EXCEPT ![t] = "OSError"]
            /\ UNCHANGED << uuid, arg >>
  /\ UNCHANGED << config, dirs, files, idx, job, cur, calls >>
  /\ UNCHANGED << dictVars, regVars, genVars >>

\* Job.create, lines 23-24: workspace.mkdir() and the construction of the Job.
CreateMkdir(t, envOk) ==
  /\ pc[t] = "mkdir"
  /\ LET u == uuid[t]
         r == Mkdir(u, dirs, envOk)
     IN IF r = "ok"
          THEN /\ dirs' = dirs \cup {u}
               /\ files' = IF u \in dirs THEN files ELSE [files EXCEPT ![u] = {}]
               /\ job' = [job EXCEPT ![t] = NewJob(arg[t], u)]
               /\ cur' = [cur EXCEPT ![t] = "job"]
               /\ idx' = [idx EXCEPT ![t] = 1]
               /\ pc' = [pc EXCEPT ![t] = IF mode[t] = "api" THEN "ready" ELSE "stage"]
               /\ err' = err
          ELSE /\ pc' = [pc EXCEPT ![t] = "raised"]
               /\ err' = [err EXCEPT ![t] = r]
               /\ UNCHANGED << dirs, files, job, cur, idx >>
  /\ uuid' = [uuid EXCEPT ![t] = 0]
  /\ arg' = [arg EXCEPT ![t] = ""]
  /\ UNCHANGED << config, mode, calls >>
  /\ UNCHANGED << dictVars, regVars, genVars >>

\* Job.record_step(name), the whole method: the append, then the marker write.
RecordStepOn(t, name, io) ==
  /\ job' = [job EXCEPT ![t].steps = AppendStep(@, name)]
  /\ files' = [files EXCEPT ![job[t].workspace] =
                 WriteText(@, MarkerFile(name), name, io)]
  /\ calls' = [calls EXCEPT ![t] = Append(@, name)]

\* A direct caller: job.record_step(name); an OSError of the write reaches
\* the caller, who may go on using the job.
ApiRecordStep(t, name, io) ==
  /\ pc[t] = "ready"
  /\ Len(calls[t]) < MaxSteps
  /\ RecordStepOn(t, name, io)
  /\ err' = [err EXCEPT ![t] = IF io = "ok" THEN "none" ELSE "OSError"]
  /\ UNCHANGED << config, dirs, pc, mode, idx, uuid, arg, cur >>
  /\ UNCHANGED << dictVars, regVars, genVars >>

\* run_pipeline: job = stage.process(job) for the next configured stage.
PipelineStage(t, io) ==
  /\ pc[t] = "stage"
  /\ idx[t] <= Len(config)
  /\ LET st == config[idx[t]]
         kind == IF cur[t] = "job" THEN "Job" ELSE "None"
     IN IF Accepts(st.proc, kind)
          THEN \* the runner passes a Job or None: only a "job" processor gets here
               /\ RecordStepOn(t, st.name, io)
               /\ IF io = "ok"
                    THEN /\ cur' = [cur EXCEPT ![t] =
                                      IF Returns(st.proc) = "same" THEN @ ELSE "None"]
                         /\ idx' = [idx EXCEPT ![t] = @ + 1]
                         /\ UNCHANGED << pc, err >>
                    ELSE /\ pc' = [pc EXCEPT ![t] = "raised"]
                         /\ err' = [err EXCEPT ![t] = "OSError"]
                         /\ UNCHANGED << cur, idx >>
          ELSE \* AttributeError before any effect: no write is attempted
               /\ io = "ok"
               /\ pc' = [pc EXCEPT ![t] = "raised"]
               /\ err' = [err EXCEPT ![t] = "AttributeError"]
               /\ UNCHANGED << job, files, calls, cur, idx >>
  /\ UNCHANGED << config, dirs, mode, uuid, arg >>
  /\ UNCHANGED << dictVars, regVars, genVars >>

\* run_pipeline: return job, after the last stage.
PipelineReturn(t) ==
  /\ pc[t] = "stage"
  /\ idx[t] > Len(config)
  /\ pc' = [pc EXCEPT ![t] = "returned"]
  /\ UNCHANGED << config, dirs, files, mode, idx, uuid, arg, job, cur, err, calls >>
  /\ UNCHANGED << dictVars, regVars, genVars >>

\* Concurrent callers, each calling Job.create or run_pipeline once.
Next ==
  \E t \in Threads :
    \/ \E data \in Payloads, m \in {"api", "pipeline"}, baseOk \in BOOLEAN, u \in UUIDs :
         CreateBegin(t, data, m, baseOk, u)
    \/ \E envOk \in BOOLEAN : CreateMkdir(t, envOk)
    \/ \E io \in IoOutcomes : PipelineStage(t, io)
    \/ PipelineReturn(t)

Spec == Init /\ [][Next]_vars

\* One caller: Job.create, then any sequence of record_step calls on the job.
NextRecord ==
  \/ \E data \in Payloads, baseOk \in BOOLEAN, u \in UUIDs :
       CreateBegin(1, data, "api", baseOk, u)
  \/ \E envOk \in BOOLEAN : CreateMkdir(1, envOk)
  \/ \E name \in RecordNames, io \in IoOutcomes : ApiRecordStep(1, name, io)

InitRecord == JobIdle /\ DictIdle /\ RegIdle /\ GenIdle

SpecRecord == InitRecord /\ [][NextRecord]_vars

\* ------------------------------------------------ process on a dict job
\* A caller invokes <service>.process(job) on its dict-shaped job.
CallProcess(name) ==
  /\ Len(djob.steps) < MaxTrace /\ Len(djob.pb) < MaxTrace
  /\ dprev' = djob
  /\ dlast' = name
  /\ CASE ProcessOf(name) = "absent" ->
            \* the module has no attribute process: AttributeError
            djob' = djob /\ dret' = "raised"
       [] ProcessOf(name) = "dict" ->
            djob' = DictProcess(name, djob) /\ dret' = "same"
       [] ProcessOf(name) = "generated" ->
            djob' = GeneratedProcess(name, djob) /\ dret' = "same"
  /\ UNCHANGED << jobVars, regVars, genVars >>

InitProcess ==
  /\ JobIdle /\ RegIdle /\ GenIdle
  /\ djob \in InputDicts /\ dprev = djob /\ dlast = "" /\ dret = "none"

NextProcess == \E name \in CallNames : CallProcess(name)

SpecProcess == InitProcess /\ [][NextProcess]_vars

\* ------------------------------------------------------- agent registry
\* BaseAgent.__init__ of some agent class, called directly: a new object.
ConstructAgent(name) ==
  /\ Len(objects) < MaxAgents
  /\ objects' = Append(objects, name)
  /\ UNCHANGED << registry, last, latest, sgen, jobVars, dictVars, genVars >>

\* AgentRegistry.register(agent)
Register(a) ==
  /\ a \in 1..Len(objects)
  /\ registry' = DictSet(registry, objects[a], a)
  /\ latest' = [latest EXCEPT ![objects[a]] = a]
  /\ UNCHANGED << objects, last, sgen, jobVars, dictVars, genVars >>

\* ServiceGeneratorAgent(...): the register_agent wrapper constructs the
\* agent, named "service-generator", and registers it.
ConstructServiceGenerator ==
  /\ Len(objects) < MaxAgents
  /\ objects' = Append(objects, "service-generator")
  /\ registry' = DictSet(registry, "service-generator", Len(objects) + 1)
  /\ latest' = [latest EXCEPT !["service-generator"] = Len(objects) + 1]
  /\ sgen' = sgen \cup {Len(objects) + 1}
  /\ UNCHANGED << last, jobVars, dictVars, genVars >>

Known(name) == \E i \in 1..Len(registry) : registry[i].name = name

\* agent_registry.get_agent(name)
GetAgentCall(name) ==
  /\ LET a == GetAgent(registry, name)
     IN last' = [op |-> "get_agent", name |-> name, known |-> Known(name),
                 outcome |-> IF a = NoAgent THEN "None" ELSE "agent",
                 agent |-> a, names |-> << >>]
  /\ UNCHANGED << objects, registry, latest, sgen, jobVars, dictVars, genVars >>

\* agent_registry.list_agents()
ListAgentsCall ==
  /\ last' = [op |-> "list_agents", name |-> "", known |-> FALSE,
              outcome |-> "names", agent |-> NoAgent,
              names |-> ListAgents(registry)]
  /\ UNCHANGED << objects, registry, latest, sgen, jobVars, dictVars, genVars >>

\* agent_registry.execute_agent(name, **kwargs)
ExecuteAgentCall(name) ==
  /\ LET r == ExecuteAgent(registry, name)
     IN last' = [op |-> "execute_agent", name |-> name, known |-> Known(name),
                 outcome |-> r.outcome, agent |-> r.agent, names |-> << >>]
  /\ UNCHANGED << objects, registry, latest, sgen, jobVars, dictVars, genVars >>

InitRegistry == JobIdle /\ DictIdle /\ RegIdle /\ GenIdle

NextRegistry ==
  \/ \E name \in AgentNames : ConstructAgent(name)
  \/ \E a \in 1..MaxAgents : Register(a)
  \/ ConstructServiceGenerator
  \/ \E name \in LookupNames : GetAgentCall(name)
  \/ ListAgentsCall
  \/ \E name \in LookupNames : ExecuteAgentCall(name)

SpecRegistry == InitRegistry /\ [][NextRegistry]_vars

\* ---------------------------------------------------- service generator
\* agent.execute(service_name=name, endpoints=ep) on the agent's workspace.
GenExecute(name, ep) ==
  /\ LET r == ExecuteService(gfs, name, ep)
     IN /\ gfs' = r.fs
        /\ glast' = [name |-> name, outcome |-> r.outcome, again |-> name \in gdone]
        /\ gdone' = IF r.outcome = "success" THEN gdone \cup {name} ELSE gdone
  /\ gprev' = gfs
  /\ UNCHANGED << jobVars, dictVars, regVars >>

InitGenerator ==
  /\ JobIdle /\ DictIdle /\ RegIdle
  /\ gfs \in {fs \in InputWorkspaces : WellFormed(fs)}
  /\ gprev = gfs /\ gdone = {} /\ glast = NoExecute

NextGenerator == \E name \in ServiceNameArgs, ep \in EndpointArgs : GenExecute(name, ep)

SpecGenerator == InitGenerator /\ [][NextGenerator]_vars

\* ------------------------------------------------------------------ claims
IsPrefix(s, q) == Len(s) <= Len(q) /\ \A i \in 1..Len(s) : s[i] = q[i]

HasMarker(u, name) == [file |-> MarkerFile(name), content |-> name] \in files[u]

MarkerExists(u, name) == \E f \in files[u] : f.file = MarkerFile(name)

\* A pipeline run that has ended without an I/O fault of the environment.
EndedWithoutFault(t) ==
  /\ mode[t] = "pipeline"
  /\ job[t].exists
  /\ pc[t] \in {"returned", "raised"}
  /\ err[t] # "OSError"

\* C1: under the canonical nine-stage configuration, a run of run_pipeline in
\* which the environment makes no stage fail returns the job, and its steps
\* are exactly EXPECTED_STEPS.
C1_CanonicalStepsAreExpected ==
  \A t \in Threads :
    (config = SERVICE_SEQUENCE /\ EndedWithoutFault(t)) =>
      /\ pc[t] = "returned"
      /\ cur[t] = "job"
      /\ job[t].steps = EXPECTED_STEPS

\* C2: every name in a job's steps has its marker in the job's workspace,
\* holding exactly the stage name.
C2_EveryStepHasMarker ==
  \A t \in Threads :
    job[t].exists =>
      \A i \in 1..Len(job[t].steps) : HasMarker(job[t].workspace, job[t].steps[i])

\* C3: when the k-th configured stage fails, steps holds exactly the first k-1
\* stage names and no marker exists for the k-th or any later stage.
C3_FailFast ==
  \A t \in Threads :
    (mode[t] = "pipeline" /\ pc[t] = "raised" /\ job[t].exists) =>
      /\ job[t].steps = SubSeq(ConfigNames(config), 1, idx[t] - 1)
      /\ \A k \in idx[t]..Len(config) :
           ~MarkerExists(job[t].workspace, config[k].name)

\* C4: no two jobs returned by Job.create have the same workspace.
C4_UniqueWorkspaces ==
  \A t1, t2 \in Threads :
    (t1 # t2 /\ job[t1].exists /\ job[t2].exists) =>
      job[t1].workspace # job[t2].workspace

\* C4 witness: two concurrent creates under one base directory have both
\* returned a job.
C4_Witness ==
  \E t1, t2 \in Threads : t1 # t2 /\ job[t1].exists /\ job[t2].exists

\* C5: steps is exactly the sequence of names passed to record_step, in call
\* order, repeats included.
C5_StepsAreTheCalls ==
  \A t \in Threads : job[t].exists => job[t].steps = calls[t]

\* C5 witness: three calls on one job, the third repeating the first name.
C5_Witness ==
  /\ job[1].exists
  /\ Len(job[1].steps) = 3
  /\ job[1].steps[1] = job[1].steps[3]
  /\ job[1].steps[1] # job[1].steps[2]

\* C6: the step in which Job.create returns yields a job with empty steps, the
\* given payload and a workspace directory created by that very step and
\* holding no file; from then on the job keeps its workspace and payload, and
\* a record_step on it creates no directory.
C6_CreateMakesFreshJob ==
  [][\A t \in Threads :
       /\ (~job[t].exists /\ job'[t].exists) =>
            /\ job'[t].steps = << >>
            /\ job'[t].data = arg[t]
            /\ job'[t].workspace \in dirs' \ dirs
            /\ files'[job'[t].workspace] = {}
       /\ job[t].exists =>
            /\ job'[t].exists
            /\ job'[t].workspace = job[t].workspace
            /\ job'[t].data = job[t].data
            /\ job[t].workspace \in dirs'
            /\ (calls'[t] # calls[t] => dirs' = dirs)]_vars

\* C6 witness: a job on which record_step has acted, beside another job.
C6_Witness ==
  \E t1, t2 \in Threads :
    /\ t1 # t2
    /\ job[t1].exists /\ job[t1].data = "other" /\ Len(job[t1].steps) > 0
    /\ job[t2].exists

CreateErrors == {"OSError", "FileExistsError"}

\* What C7 says of a failing Job.create, but for the type of the error: no job
\* is returned, no directory is made, no stage runs, and it is not retried.
CreateFailureAborts(t) ==
  /\ (pc[t] \in {"start", "mkdir"} /\ pc'[t] = "raised") =>
       /\ ~job'[t].exists
       /\ dirs' = dirs /\ files' = files
       /\ idx'[t] = 0 /\ calls'[t] = << >>
  /\ (pc[t] = "raised" /\ ~job[t].exists) =>
       /\ pc'[t] = "raised" /\ ~job'[t].exists
       /\ idx'[t] = 0 /\ calls'[t] = << >>

\* C7 as stated: a Job.create that cannot make its workspace fails with
\* WorkspaceCreationError, returns no job, runs no stage and is not retried.
C7_FailsWithWorkspaceCreationError ==
  [][\A t \in Threads :
       /\ CreateFailureAborts(t)
       /\ (pc[t] \in {"start", "mkdir"} /\ pc'[t] = "raised") =>
            err'[t] = "WorkspaceCreationError"]_vars

\* C7 as amended: the failure reaches the caller as the OSError of mkdir
\* itself (FileExistsError when the path exists), unwrapped.
C7_FailsWithOSError ==
  [][\A t \in Threads :
       /\ CreateFailureAborts(t)
       /\ (pc[t] \in {"start", "mkdir"} /\ pc'[t] = "raised") =>
            err'[t] \in CreateErrors]_vars

\* C7 witness: a pipeline run whose Job.create failed at workspace.mkdir(),
\* beside a run that recorded a step.
C7_Witness ==
  \E t1, t2 \in Threads :
    /\ mode[t1] = "pipeline" /\ pc[t1] = "raised" /\ ~job[t1].exists
    /\ err[t1] = "FileExistsError"
    /\ job[t2].exists /\ Len(job[t2].steps) > 0

\* C8: every stage processor of the canonical configuration, invoked by the
\* runner on the current job, returns the job with its own name appended to
\* steps, and the runner goes on with it.
C8_CanonicalProcessorsAppend ==
  [][\A t \in Threads :
       (/\ config = SERVICE_SEQUENCE
        /\ pc[t] = "stage" /\ idx[t] <= Len(config)
        /\ (idx'[t] # idx[t] \/ pc'[t] # pc[t])) =>
         /\ pc'[t] = "stage"
         /\ cur'[t] = "job"
         /\ idx'[t] = idx[t] + 1
         /\ job'[t].steps = Append(job[t].steps, config[idx[t]].name)]_vars

ListOf(has, l) == IF has THEN l ELSE << >>

\* C9: a generated service's process on a dict-shaped job returns that same
\* dict, with both lists present and ending in the service name, every earlier
\* entry of either list in place, lists that are distinct objects one entry
\* longer, and all other items as they were.
C9_GeneratedProcessAppendsToBoth ==
  (dlast # "" /\ ProcessOf(dlast) = "generated") =>
    /\ dret = "same"
    /\ djob.has_steps /\ djob.has_pb
    /\ djob.steps[Len(djob.steps)] = dlast
    /\ djob.pb[Len(djob.pb)] = dlast
    /\ IsPrefix(ListOf(dprev.has_steps, dprev.steps), djob.steps)
    /\ IsPrefix(ListOf(dprev.has_pb, dprev.pb), djob.pb)
    /\ ~dprev.shared =>
         /\ djob.steps = Append(ListOf(dprev.has_steps, dprev.steps), dlast)
         /\ djob.pb = Append(ListOf(dprev.has_pb, dprev.pb), dlast)
    /\ djob.extra = dprev.extra
    /\ djob.shared = dprev.shared

\* C9 witness: test_process_function: process on {"data": "test"}.
C9_Witness ==
  /\ dlast = "test-service"
  /\ ~dprev.has_steps /\ ~dprev.has_pb /\ dprev.extra = {<< "data", "test" >>}
  /\ djob.steps = << "test-service" >> /\ djob.pb = << "test-service" >>

\* C10 as stated: a lookup of an unregistered name, by get_agent or by
\* execute_agent, is reported as a failure.
C10_EveryLookupFailureIsReported ==
  (last.op \in {"get_agent", "execute_agent"} /\ ~last.known) =>
    last.outcome = "ValueError"

\* C10 as amended: execute_agent of an unregistered name raises ValueError and
\* executes nothing; get_agent of an unregistered name returns None; a
\* registered name is never answered with either.
C10_ExecuteRaisesGetReturnsNone ==
  /\ (last.op = "execute_agent" /\ ~last.known) =>
       last.outcome = "ValueError" /\ last.agent = NoAgent
  /\ (last.op = "get_agent" /\ ~last.known) =>
       last.outcome = "None" /\ last.agent = NoAgent
  /\ (last.op \in {"get_agent", "execute_agent"} /\ last.known) =>
       /\ last.outcome \in {"agent", "executed"}
       /\ last.agent \in 1..Len(objects)
       /\ objects[last.agent] = last.name

\* C10 witness: execute_agent of a name that is not registered, while
\* another agent is.
C10_Witness ==
  /\ last.op = "execute_agent" /\ last.name = "custom" /\ ~last.known
  /\ Len(registry) > 0

Range(q) == {q[i] : i \in 1..Len(q)}

\* A caller that runs run_pipeline and whose Job.create has returned.
Running(t) == mode[t] = "pipeline" /\ job[t].exists

\* C11: at every point of a run_pipeline invocation steps is the prefix of the
\* configured stage names whose length is the number of stages completed so
\* far (idx - 1).
C11_StepsArePrefixOfCompleted ==
  \A t \in Threads :
    Running(t) => job[t].steps = SubSeq(ConfigNames(config), 1, idx[t] - 1)

\* C12: when the runner is about to start stage idx, every earlier stage has
\* finished its append and its marker write; and at any point of a run a
\* stage's marker exists only if the markers of all stages before it do.
C12_StagesDoNotOverlap ==
  \A t \in Threads :
    Running(t) =>
      /\ pc[t] = "stage" =>
           \A k \in 1..(idx[t] - 1) :
             /\ job[t].steps[k] = config[k].name
             /\ HasMarker(job[t].workspace, config[k].name)
      /\ \A k \in 1..Len(config) :
           MarkerExists(job[t].workspace, config[k].name) =>
             \A j \in 1..(k - 1) : HasMarker(job[t].workspace, config[j].name)

\* C12 witness: the second stage of a two-stage run is about to begin, the
\* first stage's marker in place.
C12_Witness ==
  \E t \in Threads :
    /\ Running(t) /\ pc[t] = "stage" /\ idx[t] = 2 /\ Len(config) = 2
    /\ HasMarker(job[t].workspace, config[1].name)

Moved(t) == pc'[t] # pc[t] \/ idx'[t] # idx[t]

\* The markers the names in q give when every write succeeds.
MarkersOf(q) == {[file |-> MarkerFile(n), content |-> n] : n \in Range(q)}

\* C13: in every step one caller moves, and the trace and the workspace of
\* every other caller's job stay as they are; a job's steps are the names its
\* own run recorded, its workspace holds only markers of those names, and
\* exactly their markers when none of the run's own writes failed.
C13_RunsAreIndependent ==
  [][/\ \A t1, t2 \in Threads : (Moved(t1) /\ Moved(t2)) => t1 = t2
     /\ \A t \in Threads :
          ~Moved(t) =>
            /\ job'[t] = job[t] /\ calls'[t] = calls[t]
            /\ job[t].exists =>
                 files'[job[t].workspace] = files[job[t].workspace]
     /\ \A t \in Threads :
          (mode'[t] = "pipeline" /\ job'[t].exists) =>
            /\ job'[t].steps = calls'[t]
            /\ \A f \in files'[job'[t].workspace] :
                 \E n \in Range(calls'[t]) :
                   f.file = MarkerFile(n) /\ f.content \in {n, ""}
            /\ err'[t] # "OSError" =>
                 files'[job'[t].workspace] = MarkersOf(calls'[t])]_vars

\* C13 witness: two concurrent runs under one base directory have both
\* ended, each having recorded a step on its own job.
C13_Witness ==
  \E t1, t2 \in Threads :
    /\ t1 # t2
    /\ Running(t1) /\ Running(t2)
    /\ pc[t1] \in {"returned", "raised"} /\ pc[t2] \in {"returned", "raised"}
    /\ Len(job[t1].steps) > 0 /\ Len(job[t2].steps) > 0

\* requirements.txt, docker-compose.yml or services is missing from fs.
WorkspaceInvalid(fs) ==
  \/ "requirements.txt" \notin fs.required
  \/ "docker-compose.yml" \notin fs.required
  \/ "services" \notin fs.required

\* C14: an execute on a workspace that is invalid, or that holds
\* services/<service_name> already, returns success=False and leaves the
\* workspace exactly as it was; an execute for a name for which an execute
\* succeeded before ends with the 'already exists' error and changes nothing.
C14_FailedExecuteChangesNothing ==
  /\ (glast.outcome # "none" /\ WorkspaceInvalid(gprev)) =>
       glast.outcome = "invalid" /\ gfs = gprev
  /\ (glast.outcome # "none" /\ ~WorkspaceInvalid(gprev)
        /\ ServicePathExists(gprev, glast.name)) =>
       glast.outcome = "exists" /\ gfs = gprev
  /\ glast.outcome \in {"invalid", "exists"} => gfs = gprev
  /\ glast.again => glast.outcome = "exists" /\ gfs = gprev

\* C14 witness: a second execute for a name generated before, with other
\* endpoints than the generated main.py has.
C14_Witness ==
  /\ glast.again /\ glast.name = "model_selector"
  /\ \E f \in gfs.svc["model_selector"].files :
       f.file = "main.py" /\ f.endpoints = DefaultEndpoints

\* C15: the registry holds one agent per name. list_agents gives each
\* registered name once, and the names it gives are the registered ones;
\* get_agent(name) is the agent most recently registered under name (None
\* when there is none); each ServiceGeneratorAgent(...) leaves the new agent
\* as the one registered under 'service-generator'; an execute_agent that
\* raises ValueError leaves the registry and the agents as they were.
C15_OneAgentPerName ==
  [][ /\ \A i, j \in 1..Len(ListAgents(registry')) :
           ListAgents(registry')[i] = ListAgents(registry')[j] => i = j
      /\ Range(ListAgents(registry')) = {n \in AgentNames : latest'[n] # NoAgent}
      /\ \A n \in AgentNames : GetAgent(registry', n) = latest'[n]
      /\ (last'.op = "list_agents" /\ last' # last) =>
           last'.names = ListAgents(registry)
      /\ sgen' # sgen =>
           \E a \in sgen' \ sgen :
             /\ objects'[a] = "service-generator"
             /\ GetAgent(registry', "service-generator") = a
      /\ (last' # last /\ last'.op = "execute_agent" /\ last'.outcome = "ValueError") =>
           registry' = registry /\ objects' = objects
    ]_vars

\* C15 witness: ServiceGeneratorAgent was constructed twice, an agent of
\* another class was registered in between, and an execute_agent lookup failed.
C15_Witness ==
  /\ Cardinality(sgen) >= 2
  /\ Len(registry) = 2
  /\ \E a \in sgen : latest["service-generator"] = a /\ \E b \in sgen : b < a
  /\ last.op = "execute_agent" /\ last.outcome = "ValueError"

====
